---- MODULE Spec2Model ----
(***************************************************************************)
(* Model of psiphon/remoteServerList.go: the common remote server list     *)
(* fetcher (FetchCommonRemoteServerList), the obfuscated server list       *)
(* fetcher (FetchObfuscatedServerLists) and the shared download step       *)
(* (downloadRemoteServerListFile), over the url ETag store, the cached OSL *)
(* directory, the server entry store and the local SLOKs.                  *)
(***************************************************************************)
EXTENDS Integers, Sequences, FiniteSets, TLC

\* ------------------------------------------------------------------ bounds

\* Number of OSLs the directory registers.
NumOSL == 2

\* Number of times the remote server may publish a new version of a resource.
MaxSrvChanges == 1

\* ------------------------------------------------- resources and ETag values

OSLIDs == 1..NumOSL

\* The empty string is what GetUrlETag yields for a url with no stored ETag,
\* what downloadRemoteServerListFile returns for "unchanged", and what a
\* response without an ETag header carries.
NoETag == ""

ETags == {NoETag, "a", "b"}

\* config.RemoteServerListUrl
RemoteServerListUrl == <<"common", 0>>

\* osl.GetOSLDirectoryURL(config.ObfuscatedServerListRootURL)
GetOSLDirectoryURL == <<"osl_dir", 0>>

\* osl.GetOSLFileURL(config.ObfuscatedServerListRootURL, oslID)
GetOSLFileURL(oslID) == <<"osl", oslID>>

URLs == {RemoteServerListUrl, GetOSLDirectoryURL} \cup {GetOSLFileURL(i) : i \in OSLIDs}

\* No cached directory: GetKeyValue returns "" for a missing key.
NoBlob == <<>>

\* No directory (the nil *osl.Directory).
NoDirectory == ""

VARIABLES
    \* ---- persistent stores and environment
    etag,           \* the url ETag store: GetUrlETag / SetUrlETag
    entries,        \* the server entry store: payloads merged by StoreServerEntries
    cache,          \* the value under DATA_STORE_OSL_DIRECTORY_KEY
    sloks,          \* the SLOKs in the local datastore (GetSLOK)
    srv,            \* the ETag of what the remote server currently publishes per url
    nChanges,       \* how many times the server has published a new version
    \* ---- FetchCommonRemoteServerList
    cpc,            \* position in the call
    cNewETag,       \* newETag
    cResult,        \* "none" while running, then "ok" or "error"
    cStat,          \* how the call ended: "unchanged", "merged", "etagErr" or the failing step
    \* ---- FetchObfuscatedServerLists
    gpc,            \* position in the call
    failed,         \* the failed flag
    gNewETag,       \* newETag of the directory download
    oslDirectory,   \* the directory in use
    oslIDs,         \* the seeded OSL IDs
    idx,            \* loop position in oslIDs
    iNewETag,       \* newETag of the current OSL download
    gResult,        \* "none" while running, then "ok", "error" or "fatal"
    gDirStat,       \* the directory branch taken: "fresh", "unchanged", "fetchFailed", "freshFailed"
    gRun,           \* the call so far: "clean", "oneInvalid" (one OSL failed to unpack, nothing else failed or was skipped), "other"
    gInvalidID,     \* the OSL ID that failed to unpack when gRun = "oneInvalid", else 0
    gFetched,       \* the OSL IDs whose download was issued, in order
    gFallback,      \* how the cached-directory fallback ended, "none" if not taken
    gSlokErr,       \* GetSLOK failed during the call's lookups
    gCommits,       \* how many OSLs had SetUrlETag succeed in this call
    gFaulted,       \* some download, read, unpack, cache, store or OSL ETag step of the call failed
    \* ---- history across calls
    lastCommit,     \* <<url, ETag>> of the resource whose SetUrlETag last succeeded, <<>> if none
    lastFailedCommit, \* <<url, ETag>> of the resource last merged whose SetUrlETag then failed, <<>> if none, since committed, or since republished
    cSynced,        \* the last common call merged and committed, and nothing ran or changed since
    \* ---- downloadRemoteServerListFile taken alone
    fCall           \* one invocation: its url, how it ended, what it returned and emitted; <<>> before

storeVars == <<etag, entries, cache>>
envVars == <<sloks, srv, nChanges>>
commonVars == <<cpc, cNewETag, cResult, cStat>>
gatedVars == <<gpc, failed, gNewETag, oslDirectory, oslIDs, idx,
               iNewETag, gResult, gDirStat, gRun, gInvalidID, gFetched, gFallback, gSlokErr, gCommits, gFaulted>>
histVars == <<lastCommit, lastFailedCommit, cSynced>>
vars == <<storeVars, envVars, commonVars, gatedVars, histVars, fCall>>

\* --------------------------------------------------------- external services

\* ResumeDownload(httpClient, requestURL, destinationFilename, lastETag): on
\* success the response ETag is the ETag of what the server publishes at url,
\* also when the resource is unmodified.
ResumeDownload(url) == srv[url]

\* The payload carried by the file downloaded from url with the given ETag.
Payload(url, e) == <<url, e>>

\* The OSL IDs a directory registers, in directory order. OSL i is seeded by
\* SLOK i. Successive directory versions list the OSLs in different orders.
DirectoryOSLs(dir) ==
    IF dir = "a" THEN [i \in 1..NumOSL |-> i]
    ELSE [i \in 1..NumOSL |-> NumOSL + 1 - i]

\* oslDirectory.GetSeededOSLIDs(lookupSLOKs, errorLogger): the registered OSLs
\* whose SLOK the lookup yields, in directory order.
GetSeededOSLIDs(dir, keys) ==
    LET seeded(i) == i \in keys
    IN  SelectSeq(DirectoryOSLs(dir), seeded)

\* osl.UnpackDirectory yields the directory and its JSON; the JSON is what is
\* cached under DATA_STORE_OSL_DIRECTORY_KEY.
DirectoryJSON(dir) == <<"json", dir>>

\* osl.LoadDirectory(oslDirectoryJSON) succeeds on a well-formed blob.
LoadDirectoryOK(blob) == Len(blob) = 2 /\ blob[1] = "json"

LoadDirectory(blob) == blob[2]

\* ------------------------------------------------ downloadRemoteServerListFile

\* How a download step can end: MakeDownloadHttpClient fails, GetUrlETag
\* fails, ResumeDownload fails, or the transfer succeeds.
DownloadOutcomes == {"clientErr", "etagErr", "downloadErr", "ok"}

\* Fault variant of DownloadedETag: the comparison is inverted.
DownloadedETagInverted(responseETag, lastETag) ==
    IF responseETag # lastETag THEN NoETag ELSE responseETag

\* Fault variant of DownloadedETag: the response ETag is returned without the
\* comparison against lastETag.
DownloadedETagUncompared(responseETag, lastETag) == responseETag

\* The value returned after a successful transfer: blank when the response
\* ETag equals lastETag, otherwise the response ETag.
DownloadedETag(responseETag, lastETag) ==
    IF responseETag = lastETag THEN NoETag ELSE responseETag

\* GetUrlETag(url): the stored ETag, blank when none is stored.
GetUrlETag(url) == etag[url]

\* The notices an invocation ending as r emits:
\* NoticeRemoteServerListResourceDownloadedBytes once ResumeDownload has
\* returned, NoticeRemoteServerListResourceDownloaded when the transfer
\* succeeded and the response ETag differs from lastETag.
DownloadNotices(sourceURL, r) ==
    IF r \in {"clientErr", "etagErr"} THEN {}
    ELSE IF r = "downloadErr" THEN {"DownloadedBytes"}
    ELSE IF ResumeDownload(sourceURL) = GetUrlETag(sourceURL) THEN {"DownloadedBytes"}
    ELSE {"DownloadedBytes", "Downloaded"}

\* downloadRemoteServerListFile(sourceURL, ...) ending as r: the returned
\* error and ETag, and the notices emitted.
downloadRemoteServerListFile(sourceURL, r) ==
    IF r # "ok"
    THEN [err |-> TRUE, newETag |-> NoETag, notices |-> DownloadNotices(sourceURL, r)]
    ELSE [err |-> FALSE,
          newETag |-> DownloadedETag(ResumeDownload(sourceURL), GetUrlETag(sourceURL)),
          notices |-> DownloadNotices(sourceURL, r)]

\* ------------------------------------------------------------------- Init

Init ==
    /\ etag = [u \in URLs |-> NoETag]
    /\ entries = {}
    /\ cache = NoBlob
    /\ sloks = {}
    /\ srv = [u \in URLs |-> "a"]
    /\ nChanges = 0
    /\ cpc = "idle"
    /\ cNewETag = NoETag
    /\ cResult = "none"
    /\ cStat = "none"
    /\ gpc = "idle"
    /\ failed = FALSE
    /\ gNewETag = NoETag
    /\ oslDirectory = NoDirectory
    /\ oslIDs = <<>>
    /\ idx = 0
    /\ iNewETag = NoETag
    /\ gResult = "none"
    /\ gDirStat = "none"
    /\ gRun = "clean"
    /\ gInvalidID = 0
    /\ gFetched = <<>>
    /\ gFallback = "none"
    /\ gSlokErr = FALSE
    /\ gCommits = 0
    /\ gFaulted = FALSE
    /\ lastCommit = <<>>
    /\ lastFailedCommit = <<>>
    /\ cSynced = FALSE
    /\ fCall = <<>>

\* ------------------------------------------------------------- environment

\* Neither call is running nor holds an unread result.
BothIdle == cpc = "idle" /\ gpc = "idle"

\* The remote server publishes a new version of one resource. A call downloads
\* each url at most once, so a change made while a call runs acts on that call
\* as the same change made before it started or after it returned: changes
\* are taken at call boundaries.
ServerChange ==
    /\ BothIdle
    /\ nChanges < MaxSrvChanges
    /\ \E u \in URLs : \E e \in ETags \ {srv[u]} :
          /\ srv' = [srv EXCEPT ![u] = e]
          /\ cSynced' = (cSynced /\ u # RemoteServerListUrl)
          /\ lastFailedCommit' = IF lastFailedCommit # <<>> /\ lastFailedCommit[1] = u
                                 THEN <<>> ELSE lastFailedCommit
    /\ nChanges' = nChanges + 1
    /\ UNCHANGED <<storeVars, sloks, commonVars, gatedVars, lastCommit>>
    /\ UNCHANGED fCall

\* A SLOK is seeded into the local datastore. A call looks the SLOKs up once,
\* so seedings are likewise taken at call boundaries. The OSLs are handled
\* alike, so the SLOKs are taken to be earned in the order of their OSL IDs.
AddSLOK ==
    /\ BothIdle
    /\ \E k \in OSLIDs \ sloks : k = Cardinality(sloks) + 1 /\ sloks' = sloks \cup {k}
    /\ UNCHANGED <<storeVars, srv, nChanges, commonVars, gatedVars, histVars>>
    /\ UNCHANGED fCall

\* ------------------------------------------------------------ history

\* SetUrlETag for the resource at url, with ETag e, succeeded (ok) or failed.
RecordCommit(url, e, ok) ==
    IF ok
    THEN /\ lastCommit' = <<url, e>>
         /\ lastFailedCommit' = IF lastFailedCommit # <<>> /\ lastFailedCommit[1] = url
                                THEN <<>> ELSE lastFailedCommit
    ELSE /\ lastFailedCommit' = <<url, e>>
         /\ UNCHANGED lastCommit

\* ------------------------------------------- FetchCommonRemoteServerList

\* The call returns: result r, ended by step s.
CommonReturn(r, s) ==
    /\ cpc' = "done"
    /\ cResult' = r
    /\ cStat' = s
    /\ cNewETag' = NoETag

\* Fault variant of CommonSetETagResult: a SetUrlETag error is returned.
CommonSetETagResultStrict(ok) == IF ok THEN "ok" ELSE "error"

\* The result when SetUrlETag has run: success either way.
CommonSetETagResult(ok) == "ok"

FetchCommonStart ==
    /\ cpc = "idle"
    /\ cpc' = "c_download"
    /\ UNCHANGED <<cNewETag, cResult, cStat>>
    /\ UNCHANGED <<storeVars, envVars, gatedVars, histVars>>
    /\ UNCHANGED fCall

\* downloadRemoteServerListFile for the common list, then the caller's error
\* and unchanged checks.
CommonDownload ==
    /\ cpc = "c_download"
    /\ \E r \in DownloadOutcomes :
          LET d == downloadRemoteServerListFile(RemoteServerListUrl, r)
          IN  IF d.err THEN CommonReturn("error", "fetchErr")
              ELSE IF d.newETag = NoETag THEN CommonReturn("ok", "unchanged")
              ELSE /\ cNewETag' = d.newETag
                   /\ cpc' = "c_unpack"
                   /\ UNCHANGED <<cResult, cStat>>
    /\ UNCHANGED <<storeVars, envVars, gatedVars, histVars>>
    /\ UNCHANGED fCall

\* unpackRemoteServerListFile.
CommonUnpack ==
    /\ cpc = "c_unpack"
    /\ \E ok \in BOOLEAN :
          IF ~ok THEN CommonReturn("error", "unpackErr")
          ELSE /\ cpc' = "c_store"
               /\ UNCHANGED <<cNewETag, cResult, cStat>>
    /\ UNCHANGED <<storeVars, envVars, gatedVars, histVars>>
    /\ UNCHANGED fCall

\* storeServerEntries: DecodeAndValidateServerEntryList, then StoreServerEntries.
CommonStore ==
    /\ cpc = "c_store"
    /\ \E r \in {"decodeErr", "storeErr", "ok"} :
          IF r # "ok"
          THEN /\ CommonReturn("error", "storeErr")
               /\ UNCHANGED entries
          ELSE /\ entries' = entries \cup {Payload(RemoteServerListUrl, cNewETag)}
               /\ cpc' = "c_setetag"
               /\ UNCHANGED <<cNewETag, cResult, cStat>>
    /\ UNCHANGED <<etag, cache, envVars, gatedVars, histVars>>
    /\ UNCHANGED fCall

\* SetUrlETag(config.RemoteServerListUrl, newETag), then return nil.
CommonSetETag ==
    /\ cpc = "c_setetag"
    /\ \E ok \in BOOLEAN :
          /\ IF ok
             THEN /\ etag' = [etag EXCEPT ![RemoteServerListUrl] = cNewETag]
                  /\ cSynced' = TRUE
             ELSE UNCHANGED <<etag, cSynced>>
          /\ RecordCommit(RemoteServerListUrl, cNewETag, ok)
          /\ CommonReturn(CommonSetETagResult(ok), IF ok THEN "merged" ELSE "etagErr")
    /\ UNCHANGED <<entries, cache, envVars, gatedVars>>
    /\ UNCHANGED fCall

\* The caller has taken the result.
CommonDone ==
    /\ cpc = "done"
    /\ cpc' = "idle"
    /\ cResult' = "none"
    /\ cStat' = "none"
    /\ UNCHANGED <<cNewETag, storeVars, envVars, gatedVars, histVars>>
    /\ UNCHANGED fCall

\* --------------------------------------------- FetchObfuscatedServerLists

\* Fault variant of UseCachedDirectory: the cached directory is used only
\* when the download reports no new ETag, not after a failure.
UseCachedDirectoryOnlyUnchanged(f, newETag) == newETag = NoETag

\* if failed || newETag == "": proceed with the cached OSL directory.
UseCachedDirectory(f, newETag) == f \/ newETag = NoETag

\* Fault variant of StoreDirectoryETag: the failed flag is not consulted.
StoreDirectoryETagIgnoringFailed(f, newETag) == newETag # NoETag

\* if !failed && newETag != "": store the directory's response ETag.
StoreDirectoryETag(f, newETag) == ~f /\ newETag # NoETag

\* The url under which the directory's ETag is stored.
DirectoryETagKey == RemoteServerListUrl

\* The url under which an OSL's ETag is stored.
OSLETagKey(id) == RemoteServerListUrl

\* Fault variant of StepFailed: a failing step does not set the flag.
StepFailedUnflagged(f, ok) == f

\* The failed flag after a download, read, unpack, cache or store step of the
\* directory or of an OSL.
StepFailed(f, ok) == f \/ ~ok

\* The failed flag after SetUrlETag for the directory.
DirectorySetETagFailed(f, ok) == f

\* The failed flag after SetUrlETag for an OSL.
OSLSetETagFailed(f, ok) == f \/ ~ok

\* Fault variant of GatedReturn: the flag is ignored.
GatedReturnIgnoringFlag(f) == "ok"

\* if failed { return errors.New(...) }; return nil
GatedReturn(f) == IF f THEN "error" ELSE "ok"

\* Control after the directory download and the Fresh branch, with the flag
\* and newETag as they then stand.
AfterDirectoryBranch(f, newETag) ==
    IF UseCachedDirectory(f, newETag) THEN "d_fallback"
    ELSE IF StoreDirectoryETag(f, newETag) THEN "d_setetag"
    ELSE "seed"

FetchObfuscatedStart ==
    /\ gpc = "idle"
    /\ gpc' = "d_download"
    /\ cSynced' = FALSE
    /\ UNCHANGED <<failed, gNewETag, oslDirectory, oslIDs, idx, iNewETag,
                   gResult, gDirStat, gRun, gInvalidID, gFetched, gFallback, gSlokErr, gCommits, gFaulted>>
    /\ UNCHANGED <<storeVars, envVars, commonVars, lastCommit, lastFailedCommit>>
    /\ UNCHANGED fCall

\* The directory download and Fresh branch end with outcome s, flag f and
\* newETag e.
DirectoryBranchEnd(s, f, e) ==
    /\ gDirStat' = s
    /\ failed' = f
    /\ gFaulted' = (s \in {"fetchFailed", "freshFailed"})
    /\ gRun' = IF s \in {"fetchFailed", "freshFailed"} THEN "other" ELSE gRun
    /\ gNewETag' = e
    /\ gpc' = AfterDirectoryBranch(f, e)

\* downloadRemoteServerListFile for the directory, then the branch on its
\* result.
DirectoryDownload ==
    /\ gpc = "d_download"
    /\ \E r \in DownloadOutcomes :
          LET d == downloadRemoteServerListFile(GetOSLDirectoryURL, r)
          IN  IF d.err THEN DirectoryBranchEnd("fetchFailed", StepFailed(failed, FALSE), NoETag)
              ELSE IF d.newETag = NoETag THEN DirectoryBranchEnd("unchanged", failed, NoETag)
              ELSE /\ gNewETag' = d.newETag
                   /\ gpc' = "d_unpack"
                   /\ UNCHANGED <<failed, gDirStat, gFaulted, gRun>>
    /\ UNCHANGED <<storeVars, envVars, commonVars, histVars, oslDirectory, oslIDs,
                   idx, iNewETag, gResult, gInvalidID, gFetched, gFallback, gSlokErr, gCommits>>
    /\ UNCHANGED fCall

\* Fault variant of DirectoryUnpack: after a read or unpack failure the cache
\* step is not skipped.
DirectoryUnpackUnguarded ==
    /\ gpc = "d_unpack"
    /\ \E r \in {"readErr", "unpackErr", "ok"} :
          /\ oslDirectory' = IF r # "ok" THEN NoDirectory ELSE gNewETag
          /\ failed' = StepFailed(failed, r = "ok")
          /\ gFaulted' = (r # "ok")
          /\ gRun' = IF r # "ok" THEN "other" ELSE gRun
          /\ gpc' = "d_setcache"
          /\ UNCHANGED <<gNewETag, gDirStat>>
    /\ UNCHANGED <<storeVars, envVars, commonVars, histVars, oslIDs,
                   idx, iNewETag, gResult, gInvalidID, gFetched, gFallback, gSlokErr, gCommits>>
    /\ UNCHANGED fCall

\* Fresh branch: ioutil.ReadFile(downloadFilename), then osl.UnpackDirectory.
DirectoryUnpack ==
    /\ gpc = "d_unpack"
    /\ \E r \in {"readErr", "unpackErr", "ok"} :
          IF r # "ok"
          THEN /\ DirectoryBranchEnd("freshFailed", StepFailed(failed, FALSE), gNewETag)
               /\ oslDirectory' = NoDirectory
          ELSE /\ oslDirectory' = gNewETag
               /\ gpc' = "d_setcache"
               /\ UNCHANGED <<failed, gNewETag, gDirStat, gFaulted, gRun>>
    /\ UNCHANGED <<storeVars, envVars, commonVars, histVars, oslIDs,
                   idx, iNewETag, gResult, gInvalidID, gFetched, gFallback, gSlokErr, gCommits>>
    /\ UNCHANGED fCall

\* Fresh branch: SetKeyValue(DATA_STORE_OSL_DIRECTORY_KEY, oslDirectoryJSON).
DirectorySetCache ==
    /\ gpc = "d_setcache"
    /\ \E ok \in BOOLEAN :
          IF ~ok
          THEN /\ DirectoryBranchEnd("freshFailed", StepFailed(failed, FALSE), gNewETag)
               /\ UNCHANGED cache
          ELSE /\ cache' = DirectoryJSON(oslDirectory)
               /\ DirectoryBranchEnd("fresh", failed, gNewETag)
    /\ UNCHANGED <<etag, entries, envVars, commonVars, histVars, oslDirectory, oslIDs,
                   idx, iNewETag, gResult, gInvalidID, gFetched, gFallback, gSlokErr, gCommits>>
    /\ UNCHANGED fCall

\* The call returns at the fallback without a directory.
FatalReturn(why) ==
    /\ gpc' = "done"
    /\ gResult' = "fatal"
    /\ gFallback' = why
    /\ gNewETag' = NoETag
    /\ oslDirectory' = NoDirectory

\* Fallback: GetKeyValue(DATA_STORE_OSL_DIRECTORY_KEY), then osl.LoadDirectory.
DirectoryFallback ==
    /\ gpc = "d_fallback"
    /\ \E ok \in BOOLEAN :
          IF ~ok THEN FatalReturn("getErr")
          ELSE IF cache = NoBlob THEN FatalReturn("notFound")
          ELSE IF ~LoadDirectoryOK(cache) THEN FatalReturn("loadErr")
          ELSE /\ oslDirectory' = LoadDirectory(cache)
               /\ gFallback' = "cached"
               /\ gpc' = IF StoreDirectoryETag(failed, gNewETag) THEN "d_setetag" ELSE "seed"
               /\ gNewETag' = IF StoreDirectoryETag(failed, gNewETag) THEN gNewETag ELSE NoETag
               /\ UNCHANGED gResult
    /\ UNCHANGED <<storeVars, envVars, commonVars, histVars, failed,
                   oslIDs, idx, iNewETag, gDirStat, gRun, gInvalidID, gFetched, gSlokErr, gCommits, gFaulted>>
    /\ UNCHANGED fCall

\* SetUrlETag for the directory.
DirectorySetETag ==
    /\ gpc = "d_setetag"
    /\ \E ok \in BOOLEAN :
          /\ IF ok
             THEN etag' = [etag EXCEPT ![DirectoryETagKey] = gNewETag]
             ELSE UNCHANGED etag
          /\ RecordCommit(GetOSLDirectoryURL, gNewETag, ok)
          /\ failed' = DirectorySetETagFailed(failed, ok)
          /\ gRun' = IF ok THEN gRun ELSE "other"
    /\ gpc' = "seed"
    /\ gNewETag' = NoETag
    /\ UNCHANGED <<entries, cache, envVars, commonVars, cSynced, gDirStat,
                   oslDirectory, oslIDs, idx, iNewETag, gResult, gInvalidID, gFetched,
                   gFallback, gSlokErr, gCommits, gFaulted>>
    /\ UNCHANGED fCall

\* Fault variant of lookupSLOKs: no SLOK is looked up when the directory is
\* unchanged.
lookupSLOKsUnlessUnchanged(bad) == IF gDirStat = "unchanged" THEN {} ELSE sloks \ bad

\* lookupSLOKs: the SLOKs the lookup yields when GetSLOK fails for those in
\* bad, which then count as absent.
lookupSLOKs(bad) == sloks \ bad

\* lookupSLOKs and oslDirectory.GetSeededOSLIDs: GetSLOK works, or the
\* datastore fails every lookup. The loop starts, or the call returns when no
\* OSL is seeded.
SeedOSLIDs ==
    /\ gpc = "seed"
    /\ \E bad \in {{}, sloks} :
          LET ids == GetSeededOSLIDs(oslDirectory, lookupSLOKs(bad))
          IN  /\ oslIDs' = ids
              /\ idx' = 1
              /\ gpc' = IF Len(ids) = 0 THEN "done" ELSE "o_download"
              /\ gResult' = IF Len(ids) = 0 THEN GatedReturn(failed) ELSE "none"
              /\ gSlokErr' = (bad # {})
    /\ UNCHANGED <<storeVars, envVars, commonVars, histVars, failed, gNewETag,
                   oslDirectory, iNewETag, gDirStat, gRun, gInvalidID, gFetched,
                   gFallback, gCommits, gFaulted>>
    /\ UNCHANGED fCall

\* The OSL ID of the current loop iteration.
oslID == oslIDs[idx]

\* Fault variant of OSLContinue: a failed iteration ends the loop.
OSLBreak(s, f) ==
    LET last == idx + 1 > Len(oslIDs) \/ s \in {"invalid", "fault"}
    IN  /\ failed' = f
        /\ gFaulted' = (gFaulted \/ s \in {"invalid", "fault"})
        /\ gCommits' = IF s = "merged" THEN gCommits + 1 ELSE gCommits
        /\ gRun' = IF s = "merged" THEN gRun
                   ELSE IF s = "invalid" /\ gRun = "clean" THEN "oneInvalid"
                   ELSE "other"
        /\ gInvalidID' = IF s = "merged" THEN gInvalidID
                         ELSE IF s = "invalid" /\ gRun = "clean" THEN oslID
                         ELSE 0
        /\ idx' = idx + 1
        /\ iNewETag' = NoETag
        /\ gpc' = IF last THEN "done" ELSE "o_download"
        /\ gResult' = IF last THEN GatedReturn(f) ELSE "none"

\* The current iteration ends with outcome s ("merged", "unchanged",
\* "invalid" or "fault") and flag f: continue with the next OSL ID, or return
\* after the last.
OSLContinue(s, f) ==
    /\ failed' = f
    /\ gFaulted' = (gFaulted \/ s \in {"invalid", "fault"})
    /\ gCommits' = IF s = "merged" THEN gCommits + 1 ELSE gCommits
    /\ gRun' = IF s = "merged" THEN gRun
               ELSE IF s = "invalid" /\ gRun = "clean" THEN "oneInvalid"
               ELSE "other"
    /\ gInvalidID' = IF s = "merged" THEN gInvalidID
                     ELSE IF s = "invalid" /\ gRun = "clean" THEN oslID
                     ELSE 0
    /\ idx' = idx + 1
    /\ iNewETag' = NoETag
    /\ gpc' = IF idx + 1 > Len(oslIDs) THEN "done" ELSE "o_download"
    /\ gResult' = IF idx + 1 > Len(oslIDs) THEN GatedReturn(f) ELSE "none"

\* downloadRemoteServerListFile for the OSL, then the caller's error and
\* unchanged checks.
OSLDownload ==
    /\ gpc = "o_download"
    /\ gFetched' = Append(gFetched, oslID)
    /\ \E r \in DownloadOutcomes :
          LET d == downloadRemoteServerListFile(GetOSLFileURL(oslID), r)
          IN  IF d.err THEN OSLContinue("fault", StepFailed(failed, FALSE))
              ELSE IF d.newETag = NoETag THEN OSLContinue("unchanged", failed)
              ELSE /\ iNewETag' = d.newETag
                   /\ gpc' = "o_unpack"
                   /\ UNCHANGED <<failed, idx, gResult, gRun, gInvalidID, gCommits, gFaulted>>
    /\ UNCHANGED <<storeVars, envVars, commonVars, histVars, gNewETag, oslDirectory,
                   oslIDs, gDirStat, gFallback, gSlokErr>>
    /\ UNCHANGED fCall

\* ioutil.ReadFile(downloadFilename), then oslDirectory.UnpackOSL.
OSLUnpack ==
    /\ gpc = "o_unpack"
    /\ \E r \in {"readErr", "unpackErr", "ok"} :
          IF r = "readErr" THEN OSLContinue("fault", StepFailed(failed, FALSE))
          ELSE IF r = "unpackErr" THEN OSLContinue("invalid", StepFailed(failed, FALSE))
          ELSE /\ gpc' = "o_store"
               /\ UNCHANGED <<failed, idx, iNewETag, gResult, gRun, gInvalidID, gCommits, gFaulted>>
    /\ UNCHANGED <<storeVars, envVars, commonVars, histVars, gNewETag, oslDirectory,
                   oslIDs, gDirStat, gFetched, gFallback, gSlokErr>>
    /\ UNCHANGED fCall

\* storeServerEntries(serverListPayload).
OSLStore ==
    /\ gpc = "o_store"
    /\ \E r \in {"decodeErr", "storeErr", "ok"} :
          IF r # "ok"
          THEN /\ OSLContinue("fault", StepFailed(failed, FALSE))
               /\ UNCHANGED entries
          ELSE /\ entries' = entries \cup {Payload(GetOSLFileURL(oslID), iNewETag)}
               /\ gpc' = "o_setetag"
               /\ UNCHANGED <<failed, idx, iNewETag, gResult, gRun, gInvalidID, gCommits, gFaulted>>
    /\ UNCHANGED <<etag, cache, envVars, commonVars, histVars, gNewETag, oslDirectory,
                   oslIDs, gDirStat, gFetched, gFallback, gSlokErr>>
    /\ UNCHANGED fCall

\* SetUrlETag for the OSL, then the next iteration.
OSLSetETag ==
    /\ gpc = "o_setetag"
    /\ \E ok \in BOOLEAN :
          /\ IF ok
             THEN etag' = [etag EXCEPT ![OSLETagKey(oslID)] = iNewETag]
             ELSE UNCHANGED etag
          /\ RecordCommit(GetOSLFileURL(oslID), iNewETag, ok)
          /\ OSLContinue(IF ok THEN "merged" ELSE "fault", OSLSetETagFailed(failed, ok))
    /\ UNCHANGED <<entries, cache, envVars, commonVars, cSynced, gNewETag, oslDirectory,
                   oslIDs, gDirStat, gFetched, gFallback, gSlokErr>>
    /\ UNCHANGED fCall

\* The caller has taken the result.
GatedDone ==
    /\ gpc = "done"
    /\ gpc' = "idle"
    /\ failed' = FALSE
    /\ oslDirectory' = NoDirectory
    /\ oslIDs' = <<>>
    /\ idx' = 0
    /\ gResult' = "none"
    /\ gDirStat' = "none"
    /\ gRun' = "clean"
    /\ gInvalidID' = 0
    /\ gFetched' = <<>>
    /\ gFallback' = "none"
    /\ gSlokErr' = FALSE
    /\ gCommits' = 0
    /\ gFaulted' = FALSE
    /\ UNCHANGED <<gNewETag, iNewETag, storeVars, envVars, commonVars, histVars>>
    /\ UNCHANGED fCall

\* ------------------------------------------------------------ specification

\* Synchronization calls run one at a time, each started by its caller once
\* the previous call has returned.
Next ==
    \/ ServerChange
    \/ AddSLOK
    \/ (BothIdle /\ FetchCommonStart)
    \/ CommonDownload
    \/ CommonUnpack
    \/ CommonStore
    \/ CommonSetETag
    \/ CommonDone
    \/ (BothIdle /\ FetchObfuscatedStart)
    \/ DirectoryDownload
    \/ DirectoryUnpack
    \/ DirectorySetCache
    \/ DirectoryFallback
    \/ DirectorySetETag
    \/ SeedOSLIDs
    \/ OSLDownload
    \/ OSLUnpack
    \/ OSLStore
    \/ OSLSetETag
    \/ GatedDone

Spec == Init /\ [][Next]_vars

\* ----------------------------------- downloadRemoteServerListFile taken alone

\* Any stored ETags and any published ETags.
InitFetch ==
    /\ etag \in [URLs -> ETags]
    /\ srv \in [URLs -> ETags]
    /\ entries = {}
    /\ cache = NoBlob
    /\ sloks = {}
    /\ nChanges = 0
    /\ cpc = "idle"
    /\ cNewETag = NoETag
    /\ cResult = "none"
    /\ cStat = "none"
    /\ gpc = "idle"
    /\ failed = FALSE
    /\ gNewETag = NoETag
    /\ oslDirectory = NoDirectory
    /\ oslIDs = <<>>
    /\ idx = 0
    /\ iNewETag = NoETag
    /\ gResult = "none"
    /\ gDirStat = "none"
    /\ gRun = "clean"
    /\ gInvalidID = 0
    /\ gFetched = <<>>
    /\ gFallback = "none"
    /\ gSlokErr = FALSE
    /\ gCommits = 0
    /\ gFaulted = FALSE
    /\ lastCommit = <<>>
    /\ lastFailedCommit = <<>>
    /\ cSynced = FALSE
    /\ fCall = <<>>

\* One invocation of downloadRemoteServerListFile for some url, ending in
\* some way.
FetchInvoke ==
    /\ fCall = <<>>
    /\ \E u \in URLs : \E r \in DownloadOutcomes :
          LET d == downloadRemoteServerListFile(u, r)
          IN  fCall' = [url |-> u, outcome |-> r, err |-> d.err,
                        newETag |-> d.newETag, notices |-> d.notices]
    /\ UNCHANGED <<storeVars, envVars, commonVars, gatedVars, histVars>>

NextFetch == FetchInvoke

SpecFetch == InitFetch /\ [][NextFetch]_vars

\* ------------------------------------------- calls repeated without failure

\* The local stores are empty or hold a directory cached by an earlier call;
\* some SLOKs are held; the server publishes each resource with some ETag.
InitConverge ==
    /\ etag = [u \in URLs |-> NoETag]
    /\ entries = {}
    /\ cache \in {NoBlob, DirectoryJSON("a")}
    /\ sloks \in {1..k : k \in 0..NumOSL}
    /\ srv \in [URLs -> {"a", "b"}] \cup {[u \in URLs |-> NoETag]}
    /\ nChanges = 0
    /\ cpc = "idle"
    /\ cNewETag = NoETag
    /\ cResult = "none"
    /\ cStat = "none"
    /\ gpc = "idle"
    /\ failed = FALSE
    /\ gNewETag = NoETag
    /\ oslDirectory = NoDirectory
    /\ oslIDs = <<>>
    /\ idx = 0
    /\ iNewETag = NoETag
    /\ gResult = "none"
    /\ gDirStat = "none"
    /\ gRun = "clean"
    /\ gInvalidID = 0
    /\ gFetched = <<>>
    /\ gFallback = "none"
    /\ gSlokErr = FALSE
    /\ gCommits = 0
    /\ gFaulted = FALSE
    /\ lastCommit = <<>>
    /\ lastFailedCommit = <<>>
    /\ cSynced = FALSE
    /\ fCall = <<>>

\* No step of the running or returned calls has failed.
NoStepFailed ==
    /\ ~gFaulted
    /\ gResult # "fatal"
    /\ ~gSlokErr
    /\ cStat \notin {"fetchErr", "unpackErr", "storeErr", "etagErr"}
    /\ lastFailedCommit = <<>>

\* Calls follow one another for ever, the server content and the SLOKs stay
\* as they are, and no step fails.
NextConverge ==
    \/ (BothIdle /\ FetchCommonStart /\ NoStepFailed')
    \/ (CommonDownload /\ NoStepFailed')
    \/ (CommonUnpack /\ NoStepFailed')
    \/ (CommonStore /\ NoStepFailed')
    \/ (CommonSetETag /\ NoStepFailed')
    \/ (CommonDone /\ NoStepFailed')
    \/ (BothIdle /\ FetchObfuscatedStart /\ NoStepFailed')
    \/ (DirectoryDownload /\ NoStepFailed')
    \/ (DirectoryUnpack /\ NoStepFailed')
    \/ (DirectorySetCache /\ NoStepFailed')
    \/ (DirectoryFallback /\ NoStepFailed')
    \/ (DirectorySetETag /\ NoStepFailed')
    \/ (SeedOSLIDs /\ NoStepFailed')
    \/ (OSLDownload /\ NoStepFailed')
    \/ (OSLUnpack /\ NoStepFailed')
    \/ (OSLStore /\ NoStepFailed')
    \/ (OSLSetETag /\ NoStepFailed')
    \/ (GatedDone /\ NoStepFailed')

SpecConverge == InitConverge /\ [][NextConverge]_vars /\ WF_vars(NextConverge)

\* ------------------------------------------------- two calls run together

\* Empty local stores, some SLOKs held, each resource published with some
\* ETag, neither call started.
InitConcurrent ==
    /\ etag = [u \in URLs |-> NoETag]
    /\ entries = {}
    /\ cache = NoBlob
    /\ sloks \in {1..k : k \in 0..NumOSL}
    /\ srv \in [URLs -> {"a", "b"}]
    /\ nChanges = 0
    /\ cpc = "idle"
    /\ cNewETag = NoETag
    /\ cResult = "none"
    /\ cStat = "none"
    /\ gpc = "idle"
    /\ failed = FALSE
    /\ gNewETag = NoETag
    /\ oslDirectory = NoDirectory
    /\ oslIDs = <<>>
    /\ idx = 0
    /\ iNewETag = NoETag
    /\ gResult = "none"
    /\ gDirStat = "none"
    /\ gRun = "clean"
    /\ gInvalidID = 0
    /\ gFetched = <<>>
    /\ gFallback = "none"
    /\ gSlokErr = FALSE
    /\ gCommits = 0
    /\ gFaulted = FALSE
    /\ lastCommit = <<>>
    /\ lastFailedCommit = <<>>
    /\ cSynced = FALSE
    /\ fCall = <<>>

\* One FetchCommonRemoteServerList call and one FetchObfuscatedServerLists
\* call, each started at any moment and neither waiting for the other: their
\* steps interleave, a step holding at most one datastore operation. The
\* datastore operations themselves are atomic.
NextConcurrent ==
    \/ FetchCommonStart
    \/ CommonDownload
    \/ CommonUnpack
    \/ CommonStore
    \/ CommonSetETag
    \/ FetchObfuscatedStart
    \/ DirectoryDownload
    \/ DirectoryUnpack
    \/ DirectorySetCache
    \/ DirectoryFallback
    \/ DirectorySetETag
    \/ SeedOSLIDs
    \/ OSLDownload
    \/ OSLUnpack
    \/ OSLStore
    \/ OSLSetETag

SpecConcurrent == InitConcurrent /\ [][NextConcurrent]_vars

\* ------------------------------------------------------------- properties

\* C1: the ETag stored for a resource's url is advanced only by a step after
\* which that same resource's payload with that ETag has been merged (for the
\* directory: unpacked and cached); any other step, a failed fetch, unpack,
\* decode or merge included, leaves the ETag stored for that url unchanged.
C1_ETagAdvancedOnlyAfterMerge ==
    [][\A u \in URLs :
          etag'[u] # etag[u] =>
             IF u = GetOSLDirectoryURL
             THEN cache' = DirectoryJSON(etag'[u])
             ELSE Payload(u, etag'[u]) \in entries']_vars

\* C2: in a call that gets past the directory stage every seeded OSL ID has its
\* download issued exactly once, in the seeded order, whatever failed for an
\* earlier ID; and when exactly one ID fails to unpack and everything else
\* succeeds, every other ID is fetched, merged and has SetUrlETag succeed, and
\* the call returns failure.
C2_EveryIDAttemptedInOrder ==
    /\ gpc = "o_download" => gFetched = SubSeq(oslIDs, 1, idx - 1)
    /\ gpc \in {"o_unpack", "o_store", "o_setetag"} => gFetched = SubSeq(oslIDs, 1, idx)
    /\ (gpc = "done" /\ gResult # "fatal") =>
          /\ gFetched = oslIDs
          /\ gRun = "oneInvalid" =>
                /\ gResult = "error"
                /\ gInvalidID \in {oslIDs[i] : i \in 1..Len(oslIDs)}
                /\ gCommits = Len(oslIDs) - 1
                /\ \A i \in 1..Len(oslIDs) :
                      oslIDs[i] # gInvalidID =>
                         Payload(GetOSLFileURL(oslIDs[i]), srv[GetOSLFileURL(oslIDs[i])]) \in entries

\* One OSL failed to unpack, it was the first of a full seeded list, and the
\* call ran to the end.
C2_Witness ==
    /\ gpc = "done"
    /\ gRun = "oneInvalid"
    /\ Len(oslIDs) = NumOSL
    /\ gInvalidID = oslIDs[1]

\* C3: when the fallback is needed (the directory download failed, the fresh
\* directory failed to read, unpack or cache, or the directory is unchanged)
\* the call goes on only with the directory loaded from the cache, from which
\* the OSL IDs are then seeded and fetched; and a call that returns at the
\* fallback has issued no OSL download, which happens with a cached directory
\* present only when reading the cache itself fails.
C3_FallbackToCachedDirectory ==
    /\ (gpc \notin {"d_download", "d_unpack", "d_setcache", "d_fallback"}
           /\ gResult # "fatal"
           /\ gDirStat \in {"fetchFailed", "freshFailed", "unchanged"}) =>
          /\ gFallback = "cached"
          /\ LoadDirectoryOK(cache)
          /\ oslDirectory = LoadDirectory(cache)
          /\ gpc \in {"o_download", "o_unpack", "o_store", "o_setetag", "done"} =>
                \E keys \in {sloks, {}} : oslIDs = GetSeededOSLIDs(LoadDirectory(cache), keys)
          /\ gpc = "done" => gFetched = oslIDs
    /\ gResult = "fatal" =>
          /\ gpc = "done"
          /\ gDirStat \in {"fetchFailed", "freshFailed", "unchanged"}
          /\ gFetched = <<>>
          /\ gFallback # "getErr" => ~LoadDirectoryOK(cache)

\* The directory download failed, the cached directory was loaded, and the
\* call fetched every OSL seeded from it.
C3_Witness ==
    /\ gpc = "done"
    /\ gDirStat = "fetchFailed"
    /\ gFallback = "cached"
    /\ Len(gFetched) = NumOSL

C5_ETagPersistFailureLoggedOnly ==
    [][/\ (cpc = "c_setetag" => cResult' = "ok")
       /\ (gpc \in {"d_setetag", "o_setetag"} => failed' = failed)]_vars

\* C6: a successful SetUrlETag leaves the committed ETag in the slot of the
\* committed resource's own url, and no step of the obfuscated server list
\* call changes the ETag stored for the common list's url.
C6_CommitKeyedByOwnURL ==
    [][/\ (lastCommit' # <<>> => etag'[lastCommit'[1]] = lastCommit'[2])
       /\ (gpc # "idle" => etag'[RemoteServerListUrl] = etag[RemoteServerListUrl])]_vars

\* C7: the directory or OSL whose ETag was the last one committed is not
\* taken as changed again with that same ETag: its next download reports it
\* unchanged, so it is not unpacked or merged again.
C7_CommittedResourceNotRefetched ==
    /\ gpc = "d_unpack" => lastCommit # <<GetOSLDirectoryURL, gNewETag>>
    /\ gpc = "o_unpack" => lastCommit # <<GetOSLFileURL(oslID), iNewETag>>

\* C8: once a common call has merged the list and stored its ETag, and until
\* the server publishes a new list or another call runs, the stored ETag is
\* the server's, a further common call performs no unpack, store or SetUrlETag
\* step, and when its download succeeds it reports unchanged and returns
\* success.
C8_CommonSyncIdempotent ==
    cSynced =>
        /\ etag[RemoteServerListUrl] = srv[RemoteServerListUrl]
        /\ Payload(RemoteServerListUrl, srv[RemoteServerListUrl]) \in entries
        /\ cpc \in {"idle", "c_download", "done"}
        /\ cpc = "done" => cStat \in {"merged", "unchanged", "fetchErr"}
        /\ (cpc = "done" /\ cStat = "unchanged") => cResult = "ok"

\* The second of two common calls has returned, reporting the list unchanged.
C8_Witness ==
    /\ cSynced
    /\ cpc = "done"
    /\ cStat = "unchanged"
    /\ cResult = "ok"

\* C9: a resource that was merged but whose SetUrlETag failed, while the
\* server still publishes the same content and the resource has not been
\* committed since, is reported as changed, with that ETag, by a download.
C9_UncommittedResourceRefetched ==
    lastFailedCommit # <<>> =>
        DownloadedETag(ResumeDownload(lastFailedCommit[1]), GetUrlETag(lastFailedCommit[1]))
            = lastFailedCommit[2]

\* C10: in every call that does not return at the directory stage, whichever
\* directory branch was taken, the OSL IDs are those seeded by the SLOKs now in
\* the datastore (none when GetSLOK fails) in the directory in use, the fresh
\* one or the cached one, and each of them is fetched.
C10_UnlockQueryAlwaysRecomputed ==
    (gpc \in {"o_download", "o_unpack", "o_store", "o_setetag"}
        \/ (gpc = "done" /\ gResult # "fatal")) =>
        /\ gDirStat \in {"fresh", "unchanged", "fetchFailed", "freshFailed"}
        /\ oslDirectory = (IF gDirStat = "fresh" THEN srv[GetOSLDirectoryURL]
                           ELSE LoadDirectory(cache))
        /\ oslIDs = GetSeededOSLIDs(oslDirectory, IF gSlokErr THEN {} ELSE sloks)
        /\ gpc = "done" => gFetched = oslIDs

\* The directory was unchanged, every SLOK is held, and the call fetched
\* every OSL.
C10_Witness ==
    /\ gpc = "done"
    /\ gDirStat = "unchanged"
    /\ ~gSlokErr
    /\ sloks = OSLIDs
    /\ Len(gFetched) = NumOSL

\* C11: a download is reported unchanged, and its caller skips unpack, store
\* and SetUrlETag, exactly when the response ETag equals the ETag stored for
\* the resource's url: a call that returned at the unchanged check saw equal
\* ETags, and a call that went on to unpack saw different ones.
C11_UnchangedIffETagsEqual ==
    /\ (cpc = "done" /\ cStat = "unchanged") =>
          ResumeDownload(RemoteServerListUrl) = GetUrlETag(RemoteServerListUrl)
    /\ cpc \in {"c_unpack", "c_store"} =>
          ResumeDownload(RemoteServerListUrl) # GetUrlETag(RemoteServerListUrl)
    /\ (gpc \in {"d_fallback", "seed"} /\ gDirStat = "unchanged") =>
          ResumeDownload(GetOSLDirectoryURL) = GetUrlETag(GetOSLDirectoryURL)
    /\ gpc = "d_unpack" =>
          ResumeDownload(GetOSLDirectoryURL) # GetUrlETag(GetOSLDirectoryURL)
    /\ gpc \in {"o_unpack", "o_store"} =>
          ResumeDownload(GetOSLFileURL(oslID)) # GetUrlETag(GetOSLFileURL(oslID))

\* C12: the common call returns failure exactly when its download, unpack or
\* store step fails; the failing step is its last and writes neither the entry
\* store nor the ETag store; and the SetUrlETag step always ends the call with
\* success, with the payload merged, also when SetUrlETag itself fails.
C12_CommonFailsAtFirstFailingStep ==
    [][/\ (cpc # "done" /\ cpc' = "done") =>
             (cResult' = "error" <=> cStat' \in {"fetchErr", "unpackErr", "storeErr"})
       /\ (cResult # "error" /\ cResult' = "error") =>
             /\ cpc \in {"c_download", "c_unpack", "c_store"}
             /\ cpc' = "done"
             /\ UNCHANGED <<etag, entries>>
       /\ cpc = "c_setetag" =>
             /\ cpc' = "done"
             /\ cResult' = "ok"
             /\ Payload(RemoteServerListUrl, cNewETag) \in entries'
             /\ cStat' = "etagErr" => etag' = etag]_vars

\* A common call merged the list, SetUrlETag failed, and the call returned
\* success.
C12_Witness ==
    /\ cpc = "done"
    /\ cStat = "etagErr"
    /\ cResult = "ok"
    /\ Payload(RemoteServerListUrl, srv[RemoteServerListUrl]) \in entries

\* C13: no step removes a merged batch, and no step of an obfuscated server
\* list call, failing or not, removes or replaces an ETag stored for a url
\* other than by a newer commit of that url's own resource: what was merged
\* and committed before a failure is still in the stores when the call
\* returns.
C13_FailureUndoesNothing ==
    [][/\ entries \subseteq entries'
       /\ gpc # "idle" =>
             \A u \in URLs :
                (etag[u] # NoETag /\ etag'[u] # etag[u]) => lastCommit' = <<u, etag'[u]>>]_vars

\* C14: SetUrlETag for the directory is reached only when the Fresh branch
\* completed with the failed flag unset: the download reported a new ETag,
\* the file was read and unpacked, and the unpacked directory is the one in
\* the cache; a directory commit is recorded by that step alone, and outside
\* the SetUrlETag steps no step of the call writes the ETag store.
C14_DirectoryETagOnlyAfterCleanFresh ==
    [][/\ gpc = "d_setetag" =>
             /\ gDirStat = "fresh"
             /\ ~failed
             /\ gNewETag # NoETag
             /\ gNewETag = ResumeDownload(GetOSLDirectoryURL)
             /\ oslDirectory = gNewETag
             /\ cache = DirectoryJSON(gNewETag)
       /\ (lastCommit' # lastCommit /\ lastCommit'[1] = GetOSLDirectoryURL) =>
             gpc = "d_setetag"
       /\ (gpc \notin {"idle", "d_setetag", "o_setetag"}) =>
             UNCHANGED <<etag, lastCommit>>]_vars

\* The Fresh branch completed and the directory's SetUrlETag succeeded.
C14_Witness ==
    /\ gpc = "seed"
    /\ gDirStat = "fresh"
    /\ ~failed
    /\ lastCommit = <<GetOSLDirectoryURL, ResumeDownload(GetOSLDirectoryURL)>>

\* C15: past the directory stage the directory in use is the freshly
\* downloaded and unpacked one exactly when the Fresh branch completed without
\* a failure; after a failed download, an unchanged directory, a read or
\* unpack failure or a cache failure it is the directory loaded from the
\* cache, never none and never the one whose processing failed.
C15_DirectoryInUse ==
    (gpc \in {"d_setetag", "seed", "o_download", "o_unpack", "o_store", "o_setetag"}
        \/ (gpc = "done" /\ gResult # "fatal")) =>
        /\ oslDirectory # NoDirectory
        /\ gDirStat = "fresh" =>
              /\ gFallback = "none"
              /\ oslDirectory = ResumeDownload(GetOSLDirectoryURL)
        /\ gDirStat # "fresh" =>
              /\ gDirStat \in {"fetchFailed", "unchanged", "freshFailed"}
              /\ gFallback = "cached"
              /\ LoadDirectoryOK(cache)
              /\ oslDirectory = LoadDirectory(cache)

\* The fresh directory failed to read, unpack or cache, and the call went on
\* with the cached directory, which is not the one the server now publishes.
C15_Witness ==
    /\ gpc = "o_download"
    /\ gDirStat = "freshFailed"
    /\ oslDirectory = LoadDirectory(cache)
    /\ oslDirectory # ResumeDownload(GetOSLDirectoryURL)

\* C16: every invocation of downloadRemoteServerListFile emits the byte-count
\* notice, however it ends, and emits the resource-downloaded notice only
\* when it reports the resource as changed (no error and a non-blank ETag
\* returned).
C16_ByteCountAlwaysEmitted ==
    fCall # <<>> =>
        /\ "DownloadedBytes" \in fCall.notices
        /\ "Downloaded" \in fCall.notices => (~fCall.err /\ fCall.newETag # NoETag)

\* C17: the cached directory is written by the Fresh branch's cache step
\* alone, with the directory downloaded and unpacked in that same call; every
\* other step, the unchanged and fallback branches and the OSL loop included,
\* leaves the cache as it is, so the cache is always absent or a loadable
\* directory that was unpacked.
C17_CacheWrittenOnlyInFresh ==
    [][/\ cache' # cache =>
             /\ gpc = "d_setcache"
             /\ gNewETag # NoETag
             /\ gNewETag = ResumeDownload(GetOSLDirectoryURL)
             /\ oslDirectory = gNewETag
             /\ cache' = DirectoryJSON(oslDirectory)
             /\ gDirStat' = "fresh"
       /\ \/ cache' = NoBlob
          \/ /\ LoadDirectoryOK(cache')
             /\ LoadDirectory(cache') \in ETags \ {NoETag}]_vars

\* The Fresh branch has cached a republished directory.
C17_Witness ==
    /\ gpc = "seed"
    /\ gDirStat = "fresh"
    /\ nChanges > 0
    /\ cache = DirectoryJSON(ResumeDownload(GetOSLDirectoryURL))
    /\ cache # DirectoryJSON("a")

\* C18: once an ETag has been committed or is stored for the directory, a
\* loadable cached directory exists; and a call returns for want of a cached
\* directory after an unchanged directory download only when the response
\* ETag was blank.
C18_DirectoryETagImpliesCache ==
    /\ (lastCommit # <<>> /\ lastCommit[1] = GetOSLDirectoryURL) => LoadDirectoryOK(cache)
    /\ GetUrlETag(GetOSLDirectoryURL) # NoETag => LoadDirectoryOK(cache)
    /\ gpc = "d_setetag" => cache = DirectoryJSON(gNewETag)
    /\ (gDirStat = "unchanged" /\ gFallback = "notFound") =>
          ResumeDownload(GetOSLDirectoryURL) = NoETag

\* The directory's ETag was committed in an earlier call, and a later call
\* whose directory download reported unchanged found the cached directory.
C18_Witness ==
    /\ gpc = "seed"
    /\ gDirStat = "unchanged"
    /\ gFallback = "cached"
    /\ lastCommit # <<>>
    /\ lastCommit[1] = GetOSLDirectoryURL

\* C19: when the server content and the SLOKs no longer change and no step
\* fails, from some call on no call unpacks, caches, stores or commits
\* anything: every download reports unchanged.
C19_Convergence ==
    <>[](/\ cpc \notin {"c_unpack", "c_store", "c_setetag"}
         /\ gpc \notin {"d_unpack", "d_setcache", "d_setetag",
                        "o_unpack", "o_store", "o_setetag"})

\* C20: when a common-list call and a gated-list call whose steps interleave
\* have both returned, the ETag stored for the common list's url is blank
\* (nothing committed) or is the ETag of a common-list payload that has been
\* merged into the entry store.
C20_CommonETagIsOfMergedPayload ==
    (cpc = "done" /\ gpc = "done") =>
        \/ etag[RemoteServerListUrl] = NoETag
        \/ Payload(RemoteServerListUrl, etag[RemoteServerListUrl]) \in entries

====
